---- MODULE Spec2Model ----
(***************************************************************************)
(* ZenSupply API (src/main.py): product catalog seeding and listing,       *)
(* order intake, feedback intake and listing, and the /test diagnostics    *)
(* endpoint, over a document store with the collections product, order     *)
(* and feedback.                                                           *)
(*                                                                         *)
(* Money is kept in thousandths of a dollar (0.025 USD = 25) and the       *)
(* rounded order total in cents.  A document is a function from field      *)
(* names to values; the store's identifier is the field "_id".             *)
(***************************************************************************)
EXTENDS Integers, Sequences, FiniteSets, TLC

VARIABLES
    db,          \* TRUE iff the module-level store handle `db` is not None
    product,     \* the product collection: a set of documents
    order,       \* the order collection
    feedback,    \* the feedback collection
    nextId,      \* next identifier the store generates
    req,         \* the request being served last (with the store faults met)
    resp,        \* the response to it
    env,         \* the process environment and what list_collection_names sees
    product0,    \* the product collection at startup
    calls,       \* number of GET /products (POST /orders) served so far
    faulted,     \* TRUE iff some store operation of a GET /products failed
    pc,          \* per worker: position inside GET /products (interleaved runs)
    titles_in_db \* per worker: the titles read by the seeder's scan

vars == <<db, product, order, feedback, nextId, req, resp, env,
          product0, calls, faulted, pc, titles_in_db>>

----------------------------------------------------------------------------
(* Bounds *)

MaxCalls == 3          \* GET /products requests served one after another

MaxItems == 2          \* lines of one order

MaxQty == 2            \* quantity of one line

MaxOrderCalls == 1     \* POST /orders requests served

MaxTime == 1           \* largest timestamp the clock returns

MaxFeedback == 2       \* feedback documents submitted and persisted

MaxCollections == 11   \* collections list_collection_names may report

MaxConcCalls == 2      \* GET /products requests started in interleaved runs

Workers == {1, 2}

\* values datetime.utcnow() may return (a wall clock: not monotonic)
Times == 0..MaxTime

----------------------------------------------------------------------------
(* Values *)

None == "None"

Min(a, b) == IF a < b THEN a ELSE b

Range(s) == {s[i] : i \in 1..Len(s)}

\* str(x) of a store identifier: a string, never the identifier itself
Str(x) == <<"str", x>>

----------------------------------------------------------------------------
(* Catalog constants, src/main.py:48-89 *)

WANTED_TITLES == <<"Skeleton Spawner", "Money", "Elytra">>

PRICE_SPAWNER_UNIT == 25

PRICE_SPAWNER_SHULKER == 40000

PRICE_MONEY_PER_MILLION == 30

PRICE_ELYTRA == 12000

DEFAULT_PRODUCTS ==
    << [ title |-> "Skeleton Spawner",
         description |-> "Placeable spawner for efficient bone and arrow farms.",
         price |-> PRICE_SPAWNER_UNIT,
         category |-> "Spawners",
         image |-> "/assets/skeleton-spawner.png",
         badge |-> "Popular",
         in_stock |-> TRUE,
         variants |->
           << [id |-> "single", label |-> "Single",
               unit_price |-> PRICE_SPAWNER_UNIT],
              [id |-> "shulker", label |-> "Shulker (27x)",
               bundle_qty |-> 27, bundle_price |-> PRICE_SPAWNER_SHULKER] >> ],
       [ title |-> "Money",
         description |-> "In-game currency to boost your balance (priced per 1M).",
         price |-> PRICE_MONEY_PER_MILLION,
         category |-> "Money",
         image |-> "/assets/money-5m.png",
         badge |-> "Best value",
         in_stock |-> TRUE ],
       [ title |-> "Elytra",
         description |-> "Soar across the map with a pristine Elytra.",
         price |-> PRICE_ELYTRA,
         category |-> "Gear",
         image |-> "/assets/elytra.png",
         badge |-> None,
         in_stock |-> TRUE ] >>

----------------------------------------------------------------------------
(* The document store *)

\* a document with the given fields and the store identifier id
WithId(doc, id) ==
    [f \in DOMAIN doc \cup {"_id"} |-> IF f = "_id" THEN id ELSE doc[f]]

\* the document without the field f
Without(doc, f) == [g \in DOMAIN doc \ {f} |-> doc[g]]

\* update operator {"$set": upd}: the fields of upd are written, the others kept
SetFields(doc, upd) ==
    [f \in DOMAIN doc \cup DOMAIN upd |->
        IF f \in DOMAIN upd THEN upd[f] ELSE doc[f]]

\* an update that replaces the matched document by upd
replace_one(coll, id, upd) ==
    {IF d["_id"] = id THEN WithId(upd, id) ELSE d : d \in coll}

\* update_one(filter, {"$set": upd}) acting on the matched document `id`
update_one(coll, id, upd) ==
    {IF d["_id"] = id THEN SetFields(d, upd) ELSE d : d \in coll}

\* create_document(collection, data): the document is stored as given under
\* a fresh identifier
create_document(coll, doc, id) == coll \cup {WithId(doc, id)}

\* find({}, {"title": 1}) then p.get("title") for each
Titles(coll) == {IF "title" \in DOMAIN d THEN d["title"] ELSE None : d \in coll}

\* documents that the filter {"title": t} matches
Matching(coll, t) == {d \in coll : "title" \in DOMAIN d /\ d["title"] = t}

\* documents a deployment may hold before this process starts: stale copies
\* of canonical products (old price, a variants list, an operator's edit), a
\* product that is not on the allow-list, an up-to-date one, and a second
\* document titled "Money" (what two racing seeders leave behind)
PreExisting ==
    << WithId(SetFields(DEFAULT_PRODUCTS[2],
                        [price |-> 50,
                         variants |-> << [id |-> "5m", label |-> "5M",
                                          unit_price |-> 150] >>]), 1),
       WithId(SetFields(DEFAULT_PRODUCTS[3], [in_stock |-> FALSE]), 2),
       WithId([title |-> "Diamond Sword", description |-> "Retired.",
               price |-> 2000, category |-> "Gear", in_stock |-> FALSE], 3),
       WithId(DEFAULT_PRODUCTS[1], 4),
       WithId(DEFAULT_PRODUCTS[2], 5) >>

FirstFreeId == Len(PreExisting) + 1

----------------------------------------------------------------------------
(* Catalog seeder, src/main.py:92-108 *)

\* The store faults a seeding run meets: scan is the title scan, op[i] the
\* insert or update issued for DEFAULT_PRODUCTS[i].
SeedFaults == [scan : BOOLEAN, op : [1..Len(DEFAULT_PRODUCTS) -> BOOLEAN]]

NoFaults == [scan |-> FALSE, op |-> [i \in 1..Len(DEFAULT_PRODUCTS) |-> FALSE]]

\* pick[i] is the identifier of the document update_one matches for entry i
\* (0 when nothing matches)
Picks(coll) ==
    {p \in [1..Len(DEFAULT_PRODUCTS) -> {0} \cup {d["_id"] : d \in coll}] :
        \A i \in 1..Len(DEFAULT_PRODUCTS) :
            LET m == Matching(coll, DEFAULT_PRODUCTS[i].title)
            IN  IF m = {} THEN p[i] = 0 ELSE p[i] \in {d["_id"] : d \in m}}

\* the loop over DEFAULT_PRODUCTS from entry i on; titles is the scan's
\* result and is not refreshed.  A failed insert leaves the loop (outer
\* except), a failed update is skipped (inner except).
RECURSIVE SeedLoop(_, _, _, _, _, _)
SeedLoop(i, coll, nid, titles, faults, pick) ==
    IF i > Len(DEFAULT_PRODUCTS) THEN [product |-> coll, nextId |-> nid, failed |-> FALSE]
    ELSE LET prod == DEFAULT_PRODUCTS[i] IN
         IF prod.title \notin titles
         THEN IF faults.op[i]
              THEN [product |-> coll, nextId |-> nid, failed |-> TRUE]
              ELSE SeedLoop(i + 1, create_document(coll, prod, nid), nid + 1,
                            titles, faults, pick)
         ELSE IF faults.op[i]
              THEN SeedLoop(i + 1, coll, nid, titles, faults, pick)
              ELSE SeedLoop(i + 1, update_one(coll, pick[i], prod), nid,
                            titles, faults, pick)

\* a seeder without the except clauses lets a failed scan or insert escape
ensure_seed_products_unguarded(present, coll, nid, faults, pick) ==
    IF ~present THEN [product |-> coll, nextId |-> nid, raised |-> FALSE]
    ELSE IF faults.scan THEN [product |-> coll, nextId |-> nid, raised |-> TRUE]
    ELSE LET r == SeedLoop(1, coll, nid, Titles(coll), faults, pick)
         IN  [product |-> r.product, nextId |-> r.nextId, raised |-> r.failed]

\* a seeder that never looks at the scanned titles inserts every entry
ensure_seed_products_blind(present, coll, nid, faults, pick) ==
    IF ~present \/ faults.scan
    THEN [product |-> coll, nextId |-> nid, raised |-> FALSE]
    ELSE LET r == SeedLoop(1, coll, nid, {}, faults, pick)
         IN  [product |-> r.product, nextId |-> r.nextId, raised |-> FALSE]

\* ensure_seed_products(): returns at once when db is None; every exception
\* is caught, so `raised` is FALSE on every path
ensure_seed_products(present, coll, nid, faults, pick) ==
    IF ~present THEN [product |-> coll, nextId |-> nid, raised |-> FALSE]
    ELSE IF faults.scan THEN [product |-> coll, nextId |-> nid, raised |-> FALSE]
    ELSE LET r == SeedLoop(1, coll, nid, Titles(coll), faults, pick)
         IN  [product |-> r.product, nextId |-> r.nextId, raised |-> FALSE]

----------------------------------------------------------------------------
(* Catalog reader, src/main.py:119-130 *)

\* p["id"] = str(p.pop("_id")) when the document has an _id
Public(d) ==
    IF "_id" \in DOMAIN d
    THEN [f \in (DOMAIN d \ {"_id"}) \cup {"id"} |->
            IF f = "id" THEN Str(d["_id"]) ELSE d[f]]
    ELSE d

\* find without a filter: every stored product
FindAll(coll) == coll

\* find({"title": {"$in": WANTED_TITLES}})
FindWanted(coll) ==
    {d \in coll : "title" \in DOMAIN d /\ d["title"] \in Range(WANTED_TITLES)}

\* GET /products, one request served start to end
ListProducts ==
    \E faults \in SeedFaults, readFail \in BOOLEAN, pick \in Picks(product) :
        LET s == ensure_seed_products(db, product, nextId, faults, pick) IN
        /\ calls < MaxCalls
        /\ product' = s.product
        /\ nextId' = s.nextId
        /\ req' = [op |-> "list_products", faults |-> faults,
                   readFail |-> readFail]
        /\ resp' = IF s.raised THEN [status |-> 500]
                   ELSE IF ~db THEN [status |-> 200, items |-> {}]
                   ELSE IF readFail THEN [status |-> 500]
                   ELSE [status |-> 200,
                         items |-> {Public(d) : d \in FindWanted(s.product)}]
        /\ calls' = calls + 1
        /\ faulted' = (faulted \/ (db /\ (faults # NoFaults \/ readFail)))
        /\ UNCHANGED <<db, order, feedback, env, product0, pc, titles_in_db>>

\* GET /
ReadRoot ==
    /\ req' = [op |-> "read_root"]
    /\ resp' = [status |-> 200, message |-> "ZenSupply Backend Running"]
    /\ UNCHANGED <<db, product, order, feedback, nextId, env, product0,
                   calls, faulted, pc, titles_in_db>>

----------------------------------------------------------------------------
(* Order intake, src/main.py:24-37 and 133-153 *)

\* per-line prices a client may submit: a price with a half-cent and the
\* catalog price of the Elytra (price: float carries no constraint)
Prices == {PRICE_SPAWNER_UNIT, PRICE_ELYTRA}

\* OrderItem payloads the validation layer accepts: each price in the
\* smallest and in the largest quantity
ItemInputs ==
    [product_id : {"p1"}, name : {"Elytra"}, price : Prices,
     quantity : {1, MaxQty}, variant_id : {None}, variant_label : {None}]

\* a line with quantity 0, which the validation layer must refuse
ZeroQuantityLine ==
    [product_id |-> "p1", name |-> "Elytra", price |-> PRICE_ELYTRA,
     quantity |-> 0, variant_id |-> None, variant_label |-> None]

RECURSIVE SeqsUpTo(_, _)
SeqsUpTo(S, n) ==
    IF n = 0 THEN {<<>>}
    ELSE LET shorter == SeqsUpTo(S, n - 1)
         IN  shorter \cup {Append(s, x) : s \in {t \in shorter : Len(t) = n - 1},
                                          x \in S}

\* CreateOrderRequest payloads (all carry the required minecraft_username)
OrderInputs ==
    [minecraft_username : {"Steve"}, discord : {None}, email : {None},
     items : SeqsUpTo(ItemInputs, MaxItems) \cup {<<ZeroQuantityLine>>},
     notes : {None}]

\* the schema validation that runs before create_order:
\* quantity: int = Field(ge=1) on every line
ValidOrderRequest(payload) ==
    \A k \in 1..Len(payload.items) : payload.items[k].quantity >= 1

\* an order persisted before this process started
PreOrder ==
    [_id |-> 0, minecraft_username |-> "Alex", discord |-> None,
     email |-> None,
     items |-> << [product_id |-> "p1", name |-> "Elytra",
                   price |-> PRICE_ELYTRA, quantity |-> 2,
                   variant_id |-> None, variant_label |-> None] >>,
     total_amount |-> 2400, status |-> "pending", notes |-> None,
     created_at |-> 0]

\* an intake that never refuses an empty cart
NoItemsIgnored(items) == FALSE

\* `not payload.items`
NoItems(items) == Len(items) = 0

\* a total that forgets the quantity
RECURSIVE OrderTotalUnitOnly(_)
OrderTotalUnitOnly(items) ==
    IF items = <<>> THEN 0
    ELSE items[1].price + OrderTotalUnitOnly(Tail(items))

\* sum(i.price * i.quantity for i in payload.items), in thousandths
RECURSIVE OrderTotal(_)
OrderTotal(items) ==
    IF items = <<>> THEN 0
    ELSE items[1].price * items[1].quantity + OrderTotal(Tail(items))

\* round(total, 2), in cents.  Off a half-cent the nearest cent; on a
\* half-cent the binary float nearest to the decimal decides (Python gives
\* round(0.015, 2) = 0.01 and round(0.025, 2) = 0.03), so either neighbour
Round2(total) ==
    LET q == total \div 10
        r == total % 10
    IN  IF r < 5 THEN {q} ELSE IF r > 5 THEN {q + 1} ELSE {q, q + 1}

\* POST /orders, one request served start to end
CreateOrder ==
    \E payload \in OrderInputs, t \in Times, fail \in BOOLEAN :
      \E amount \in Round2(OrderTotal(payload.items)) :
        LET order_doc ==
              [minecraft_username |-> payload.minecraft_username,
               discord |-> payload.discord,
               email |-> payload.email,
               items |-> payload.items,
               total_amount |-> amount,
               status |-> "pending",
               notes |-> payload.notes,
               created_at |-> t]
            stored == ValidOrderRequest(payload) /\ ~NoItems(payload.items)
                      /\ db /\ ~fail
        IN
        /\ calls < MaxOrderCalls
        /\ calls' = calls + 1
        /\ req' = [op |-> "create_order", payload |-> payload, fail |-> fail]
        /\ resp' = IF ~ValidOrderRequest(payload) THEN [status |-> 422]
                   ELSE IF NoItems(payload.items)
                        THEN [status |-> 400, detail |-> "No items in order"]
                   ELSE IF ~db \/ fail THEN [status |-> 500]
                   ELSE [status |-> 200,
                         body |-> [order_id |-> Str(nextId),
                                   status |-> "received"]]
        /\ order' = IF stored THEN create_document(order, order_doc, nextId)
                    ELSE order
        /\ nextId' = IF stored THEN nextId + 1 ELSE nextId
        /\ UNCHANGED <<db, product, feedback, env, product0, faulted,
                       pc, titles_in_db>>

----------------------------------------------------------------------------
(* Feedback intake and listing, src/main.py:39-42 and 156-184 *)

\* Query(4, ge=1, le=5) and Query(100, ge=1, le=500)
MIN_RATING_DEFAULT == 4

MIN_RATING_GE == 1

MIN_RATING_LE == 5

LIMIT_DEFAULT == 100

LIMIT_GE == 1

LIMIT_LE == 500

\* ratings a client may submit; Field(ge=1, le=5) must refuse 0 and 6
RatingInputs == {0, 3, 5, 6}

\* query parameters: <<>> is an omitted parameter, <<v>> a given one
MinRatingInputs == {<<>>, <<0>>, <<1>>, <<5>>, <<6>>}

LimitInputs == {<<>>, <<0>>, <<1>>, <<500>>, <<501>>}

\* a feedback document persisted before this process started
PreFeedback ==
    [_id |-> 0, rating |-> 3, comment |-> None, minecraft_username |-> None,
     created_at |-> 0]

\* a declaration that refuses nothing
AnyValue(lo, hi, v) == TRUE

\* the ge/le constraint of a Field or Query declaration
WithinBounds(lo, hi, v) == lo <= v /\ v <= hi

\* the value the handler receives for a query parameter
Param(p, default) == IF p = <<>> THEN default ELSE p[1]

\* POST /feedback, one request served start to end
SubmitFeedback ==
    \E rating \in RatingInputs, t \in Times, fail \in BOOLEAN :
        LET doc == [rating |-> rating, comment |-> None,
                    minecraft_username |-> None, created_at |-> t]
            valid == WithinBounds(1, 5, rating)
            stored == valid /\ db /\ ~fail
        IN
        /\ stored => Cardinality(feedback \ {PreFeedback}) < MaxFeedback
        /\ req' = [op |-> "submit_feedback", rating |-> rating, fail |-> fail]
        /\ resp' = IF ~valid THEN [status |-> 422]
                   ELSE IF ~db \/ fail THEN [status |-> 500]
                   ELSE [status |-> 200,
                         body |-> [feedback_id |-> Str(nextId),
                                   status |-> "received"]]
        /\ feedback' = IF stored THEN create_document(feedback, doc, nextId)
                       ELSE feedback
        /\ nextId' = IF stored THEN nextId + 1 ELSE nextId
        /\ UNCHANGED <<db, product, order, env, product0, calls, faulted,
                       pc, titles_in_db>>

\* a filter {"rating": {"$gt": m}}
FindRatingGt(coll, m) == {d \in coll : d["rating"] > m}

\* find({"rating": {"$gte": m}})
FindRatingGte(coll, m) == {d \in coll : d["rating"] >= m}

\* .sort("created_at", -1): the documents in non-increasing created_at; the
\* store orders equal timestamps as it likes
SortNewestFirst(S) ==
    {s \in [1..Cardinality(S) -> S] :
        /\ \A i, j \in 1..Cardinality(S) : (i # j) => (s[i] # s[j])
        /\ \A i \in 1..(Cardinality(S) - 1) :
              s[i]["created_at"] >= s[i + 1]["created_at"]}

\* .limit(n) for n >= 1: the first n documents of the cursor
Limit(s, n) == SubSeq(s, 1, Min(n, Len(s)))

\* f["id"] = str(f.pop("_id")) if "_id" in f else None
PublicFeedback(f) ==
    [g \in (DOMAIN f \ {"_id"}) \cup {"id"} |->
        IF g = "id" THEN (IF "_id" \in DOMAIN f THEN Str(f["_id"]) ELSE <<None>>)
        ELSE f[g]]

\* GET /feedbacks, one request served start to end
ListFeedbacks ==
    \E mr \in MinRatingInputs, lim \in LimitInputs, readFail \in BOOLEAN :
        LET min_rating == Param(mr, MIN_RATING_DEFAULT)
            limit == Param(lim, LIMIT_DEFAULT)
            valid == /\ WithinBounds(MIN_RATING_GE, MIN_RATING_LE, min_rating)
                     /\ WithinBounds(LIMIT_GE, LIMIT_LE, limit)
        IN
        /\ req' = [op |-> "list_feedbacks", min_rating |-> mr, limit |-> lim,
                   readFail |-> readFail]
        /\ \/ /\ ~valid
              /\ resp' = [status |-> 422]
           \/ /\ valid /\ ~db
              /\ resp' = [status |-> 200, items |-> <<>>]
           \/ /\ valid /\ db /\ readFail
              /\ resp' = [status |-> 500]
           \/ /\ valid /\ db /\ ~readFail
              /\ \E cursor \in SortNewestFirst(FindRatingGte(feedback, min_rating)) :
                    LET page == Limit(cursor, limit)
                    IN  resp' = [status |-> 200,
                                 items |-> [k \in 1..Len(page) |->
                                               PublicFeedback(page[k])]]
        /\ UNCHANGED <<db, product, order, feedback, nextId, env, product0,
                       calls, faulted, pc, titles_in_db>>

----------------------------------------------------------------------------
(* Diagnostics, src/main.py:187-218 *)

COLLECTIONS_SHOWN == 10

ERROR_TEXT_SHOWN == 50

\* values of an environment variable: unset, set to the empty string, set
EnvValues == {None, "", "mongodb://store"}

\* lengths of the text of an exception raised by list_collection_names
ErrorLengths == {12, 50, 80}

\* the names db.list_collection_names() returns when n collections exist
CollectionNames(n) == [k \in 1..n |-> k]

\* a slice that keeps the whole list
Whole(s, n) == s

\* s[:n]
Prefix(s, n) == SubSeq(s, 1, Min(n, Len(s)))

\* the status texts of the "database" field (status emoji left out); the
\* second component is the length of the error text shown after the prefix
NotAvailable == <<"Not Available", 0>>

Available == <<"Available", 0>>

ConnectedAndWorking == <<"Connected & Working", 0>>

ConnectedButError(len) == <<"Connected but Error: ", Min(len, ERROR_TEXT_SHOWN)>>

NotInitialized == <<"Available but not initialized", 0>>

\* "Set" if os.getenv(name) else "Not Set": unset and empty both read as unset
SetOrNot(v) == IF v = None \/ v = "" THEN "Not Set" ELSE "Set"

\* GET /test
TestDatabase ==
    \E listFail \in BOOLEAN, errLen \in ErrorLengths :
        LET initial == [backend |-> "Running",
                        database |-> NotAvailable,
                        connection_status |-> "Not Connected",
                        collections |-> <<>>]
            connected == [initial EXCEPT !.database = Available,
                                         !.connection_status = "Connected"]
            probed ==
              IF db
              THEN IF listFail
                   THEN [connected EXCEPT !.database = ConnectedButError(errLen)]
                   ELSE [connected EXCEPT !.database = ConnectedAndWorking,
                                          !.collections =
                                              Prefix(CollectionNames(env.ncoll),
                                                     COLLECTIONS_SHOWN)]
              ELSE [initial EXCEPT !.database = NotInitialized]
        IN
        /\ req' = [op |-> "test_database", listFail |-> listFail]
        /\ resp' = [status |-> 200,
                    body |-> [backend |-> probed.backend,
                              database |-> probed.database,
                              database_url |-> SetOrNot(env.url),
                              database_name |-> SetOrNot(env.name),
                              connection_status |-> probed.connection_status,
                              collections |-> probed.collections]]
        /\ UNCHANGED <<db, product, order, feedback, nextId, env, product0,
                       calls, faulted, pc, titles_in_db>>

----------------------------------------------------------------------------
(* GET /products served by concurrent workers, src/main.py:92-130.  Each    *)
(* store operation is one step; the steps of different requests interleave. *)

At(w, a) == pc[w].at = a

Goto(w, a, i) == pc' = [pc EXCEPT ![w] = [at |-> a, i |-> i]]

\* a worker picks up a GET /products request; ensure_seed_products returns
\* at once when db is None
Begin(w) ==
    /\ At(w, "idle")
    /\ calls < MaxConcCalls
    /\ calls' = calls + 1
    /\ IF db THEN Goto(w, "scan", 0) ELSE Goto(w, "read", 0)
    /\ UNCHANGED <<db, product, order, feedback, nextId, req, resp, env,
                   product0, faulted, titles_in_db>>

\* titles_in_db = set(p.get("title") for p in db.product.find(...))
Scan(w) ==
    /\ At(w, "scan")
    /\ \E fail \in BOOLEAN :
          IF fail
          THEN /\ Goto(w, "read", 0)
               /\ faulted' = TRUE
               /\ UNCHANGED titles_in_db
          ELSE /\ Goto(w, "loop", 1)
               /\ titles_in_db' = [titles_in_db EXCEPT ![w] = Titles(product)]
               /\ UNCHANGED faulted
    /\ UNCHANGED <<db, product, order, feedback, nextId, req, resp, env,
                   product0, calls>>

\* where the loop goes after entry i
AfterEntry(w, i) ==
    IF i = Len(DEFAULT_PRODUCTS) THEN Goto(w, "read", 0) ELSE Goto(w, "loop", i + 1)

\* create_document("product", prod) for an entry whose title the scan missed
Insert(w) ==
    /\ At(w, "loop")
    /\ DEFAULT_PRODUCTS[pc[w].i].title \notin titles_in_db[w]
    /\ \E fail \in BOOLEAN :
          IF fail
          THEN /\ Goto(w, "read", 0)
               /\ faulted' = TRUE
               /\ UNCHANGED <<product, nextId>>
          ELSE /\ AfterEntry(w, pc[w].i)
               /\ product' = create_document(product, DEFAULT_PRODUCTS[pc[w].i],
                                             nextId)
               /\ nextId' = nextId + 1
               /\ UNCHANGED faulted
    /\ UNCHANGED <<db, order, feedback, req, resp, env, product0, calls,
                   titles_in_db>>

\* update_one({"title": ...}, {"$set": prod}) for an entry the scan saw
Update(w) ==
    /\ At(w, "loop")
    /\ DEFAULT_PRODUCTS[pc[w].i].title \in titles_in_db[w]
    /\ AfterEntry(w, pc[w].i)
    /\ \E fail \in BOOLEAN :
          IF fail
          THEN /\ faulted' = TRUE
               /\ UNCHANGED product
          ELSE /\ UNCHANGED faulted
               /\ LET m == Matching(product, DEFAULT_PRODUCTS[pc[w].i].title)
                  IN  IF m = {} THEN UNCHANGED product
                      ELSE \E d \in m :
                             product' = update_one(product, d["_id"],
                                                   DEFAULT_PRODUCTS[pc[w].i])
    /\ UNCHANGED <<db, order, feedback, nextId, req, resp, env, product0,
                   calls, titles_in_db>>

\* list_products reads the allow-listed products and answers
Read(w) ==
    /\ At(w, "read")
    /\ Goto(w, "idle", 0)
    /\ \E readFail \in BOOLEAN :
          /\ req' = [op |-> "list_products", worker |-> w,
                     readFail |-> readFail]
          /\ resp' = IF ~db THEN [status |-> 200, items |-> {}]
                     ELSE IF readFail THEN [status |-> 500]
                     ELSE [status |-> 200,
                           items |-> {Public(d) : d \in FindWanted(product)}]
          /\ faulted' = (faulted \/ (db /\ readFail))
    /\ UNCHANGED <<db, product, order, feedback, nextId, env, product0,
                   calls, titles_in_db>>

----------------------------------------------------------------------------
(* Initial states and specifications.  The handlers of the catalog, of    *)
(* orders, of feedback and of diagnostics work on disjoint collections, so *)
(* each component is also specified on its own, with the inputs that its   *)
(* properties are about.                                                   *)

Env0 == [url |-> None, name |-> None, ncoll |-> 0]

\* the store as this process finds it: any subset of PreExisting when a
\* handle exists, nothing to reach when db is None
InitCatalog ==
    /\ db \in BOOLEAN
    /\ product \in IF db THEN SUBSET Range(PreExisting) ELSE {{}}
    /\ order = {}
    /\ feedback = {}
    /\ nextId = FirstFreeId
    /\ req = [op |-> "none"]
    /\ resp = [status |-> 0]
    /\ env = Env0
    /\ product0 = product
    /\ calls = 0
    /\ faulted = FALSE
    /\ pc = [w \in Workers |-> [at |-> "idle", i |-> 0]]
    /\ titles_in_db = [w \in Workers |-> {}]

NextCatalog == ListProducts \/ ReadRoot

SpecCatalog == InitCatalog /\ [][NextCatalog]_vars

\* order intake: the product collection holds an Elytra at the catalog
\* price, the order collection is empty or holds an earlier order
InitOrders ==
    /\ db \in BOOLEAN
    /\ product = IF db THEN {PreExisting[2]} ELSE {}
    /\ order \in IF db THEN {{}, {PreOrder}} ELSE {{}}
    /\ feedback = {}
    /\ nextId = FirstFreeId
    /\ req = [op |-> "none"]
    /\ resp = [status |-> 0]
    /\ env = Env0
    /\ product0 = product
    /\ calls = 0
    /\ faulted = FALSE
    /\ pc = [w \in Workers |-> [at |-> "idle", i |-> 0]]
    /\ titles_in_db = [w \in Workers |-> {}]

NextOrders == CreateOrder

SpecOrders == InitOrders /\ [][NextOrders]_vars

\* feedback intake and listing: the feedback collection is empty or holds
\* an earlier entry
InitFeedback ==
    /\ db \in BOOLEAN
    /\ product = {}
    /\ order = {}
    /\ feedback \in IF db THEN {{}, {PreFeedback}} ELSE {{}}
    /\ nextId = FirstFreeId
    /\ req = [op |-> "none"]
    /\ resp = [status |-> 0]
    /\ env = Env0
    /\ product0 = product
    /\ calls = 0
    /\ faulted = FALSE
    /\ pc = [w \in Workers |-> [at |-> "idle", i |-> 0]]
    /\ titles_in_db = [w \in Workers |-> {}]

NextFeedback == SubmitFeedback \/ ListFeedbacks

SpecFeedback == InitFeedback /\ [][NextFeedback]_vars

\* diagnostics: any environment, any number of collections, some store
InitHealth ==
    /\ db \in BOOLEAN
    /\ product \in IF db THEN {{}, Range(PreExisting)} ELSE {{}}
    /\ order = {}
    /\ feedback = {}
    /\ nextId = FirstFreeId
    /\ req = [op |-> "none"]
    /\ resp = [status |-> 0]
    /\ env \in [url : EnvValues, name : EnvValues,
                ncoll : IF db THEN 0..MaxCollections ELSE {0}]
    /\ product0 = product
    /\ calls = 0
    /\ faulted = FALSE
    /\ pc = [w \in Workers |-> [at |-> "idle", i |-> 0]]
    /\ titles_in_db = [w \in Workers |-> {}]

NextHealth == TestDatabase \/ ReadRoot

SpecHealth == InitHealth /\ [][NextHealth]_vars

\* interleaved catalog requests: a store without duplicate titles
InitConc ==
    /\ db \in BOOLEAN
    /\ product \in IF db
                   THEN {S \in SUBSET Range(PreExisting) :
                            \A d \in S, e \in S :
                               (d["title"] = e["title"]) => (d = e)}
                   ELSE {{}}
    /\ order = {}
    /\ feedback = {}
    /\ nextId = FirstFreeId
    /\ req = [op |-> "none"]
    /\ resp = [status |-> 0]
    /\ env = Env0
    /\ product0 = product
    /\ calls = 0
    /\ faulted = FALSE
    /\ pc = [w \in Workers |-> [at |-> "idle", i |-> 0]]
    /\ titles_in_db = [w \in Workers |-> {}]

NextConc == \E w \in Workers : Begin(w) \/ Scan(w) \/ Insert(w) \/ Update(w) \/ Read(w)

SpecConc == InitConc /\ [][NextConc]_vars

\* the whole service, requests served one at a time
Init ==
    /\ db \in BOOLEAN
    /\ product \in IF db THEN SUBSET Range(PreExisting) ELSE {{}}
    /\ order = {}
    /\ feedback = {}
    /\ nextId = FirstFreeId
    /\ req = [op |-> "none"]
    /\ resp = [status |-> 0]
    /\ env \in [url : EnvValues, name : EnvValues,
                ncoll : IF db THEN 0..MaxCollections ELSE {0}]
    /\ product0 = product
    /\ calls = 0
    /\ faulted = FALSE
    /\ pc = [w \in Workers |-> [at |-> "idle", i |-> 0]]
    /\ titles_in_db = [w \in Workers |-> {}]

Next ==
    \/ ReadRoot
    \/ ListProducts
    \/ CreateOrder
    \/ SubmitFeedback
    \/ ListFeedbacks
    \/ TestDatabase

Spec == Init /\ [][Next]_vars

----------------------------------------------------------------------------
(* Catalog properties *)

NoDuplicateTitles ==
    \A d \in product, e \in product :
        (d["title"] = e["title"]) => (d["_id"] = e["_id"])

\* C3: a served GET /products returns only products whose title is on the
\* allow-list, and it returns every stored product whose title is on it
\* (under its public id, with its fields)
C3_OnlyAndAllWanted ==
    (req.op = "list_products" /\ resp.status = 200) =>
        /\ \A it \in resp.items :
              \E i \in 1..Len(WANTED_TITLES) : it["title"] = WANTED_TITLES[i]
        /\ \A d \in product :
              (\E i \in 1..Len(WANTED_TITLES) : d["title"] = WANTED_TITLES[i])
              => \E it \in resp.items :
                    /\ it["id"] = Str(d["_id"])
                    /\ "_id" \notin DOMAIN it
                    /\ \A f \in DOMAIN d \ {"_id"} : it[f] = d[f]

C3_Witness ==
    /\ req.op = "list_products"
    /\ resp.status = 200
    /\ \E d \in product : d["title"] = "Diamond Sword"
    /\ resp.items # {}

\* C4: from an empty product collection and with no store fault, after the
\* first GET /products the collection holds exactly one document per
\* DEFAULT_PRODUCTS entry, with that entry's fields; after the second no
\* title occurs twice and nothing was inserted
C4_SeedOnceThenIdempotent ==
    (db /\ product0 = {} /\ ~faulted) =>
        /\ calls >= 1 =>
              /\ Titles(product) = {"Skeleton Spawner", "Money", "Elytra"}
              /\ Cardinality(product) = Len(DEFAULT_PRODUCTS)
              /\ \A i \in 1..Len(DEFAULT_PRODUCTS) :
                    \E d \in product :
                       \A f \in DOMAIN DEFAULT_PRODUCTS[i] :
                          d[f] = DEFAULT_PRODUCTS[i][f]
        /\ calls >= 2 =>
              /\ NoDuplicateTitles
              /\ nextId = FirstFreeId + Len(DEFAULT_PRODUCTS)

C4_Witness ==
    db /\ product0 = {} /\ ~faulted /\ calls = 2 /\ product # {}

\* the seeder's loop reaches entry i: no insert before it failed
Reaches(coll, faults, i) ==
    /\ ~faults.scan
    /\ \A j \in 1..(i - 1) :
          ~(DEFAULT_PRODUCTS[j].title \notin Titles(coll) /\ faults.op[j])

\* C5 as stated: after a seeding run without store faults, each canonical
\* title has a stored document whose fields, the identifier aside, are
\* exactly the canonical entry's fields
C5_FullReplace ==
    (req.op = "list_products" /\ db /\ req.faults = NoFaults) =>
        \A i \in 1..Len(DEFAULT_PRODUCTS) :
            \E d \in Matching(product, DEFAULT_PRODUCTS[i].title) :
                Without(d, "_id") = DEFAULT_PRODUCTS[i]

\* C5 amended: when the seeder's update for a canonical product whose title
\* is already stored succeeds, one stored document with that title gets
\* every canonical field set to the canonical value and keeps every other
\* field it had
C5_SetMerges ==
    [][ (req'.op = "list_products" /\ db) =>
          \A i \in 1..Len(DEFAULT_PRODUCTS) :
             ( /\ DEFAULT_PRODUCTS[i].title \in Titles(product)
               /\ Reaches(product, req'.faults, i)
               /\ ~req'.faults.op[i] )
             => \E d \in Matching(product, DEFAULT_PRODUCTS[i].title) :
                  \E e \in product' :
                     /\ e["_id"] = d["_id"]
                     /\ \A f \in DOMAIN DEFAULT_PRODUCTS[i] :
                           e[f] = DEFAULT_PRODUCTS[i][f]
                     /\ \A f \in DOMAIN d \ DOMAIN DEFAULT_PRODUCTS[i] :
                           f \in DOMAIN e /\ e[f] = d[f]
      ]_vars

C5_Witness ==
    /\ req.op = "list_products"
    /\ db
    /\ req.faults = NoFaults
    /\ \E d \in product :
          /\ d["title"] = "Money"
          /\ d["price"] = PRICE_MONEY_PER_MILLION
          /\ "variants" \in DOMAIN d

\* C6: GET /products answers 500 exactly when its own read of the product
\* collection fails; whatever store operation of the seeder failed, the
\* seeder returned and the request is served
C6_SeederNeverRaises ==
    (req.op = "list_products") =>
        IF db /\ req.readFail THEN resp.status = 500 ELSE resp.status = 200

C6_Witness ==
    /\ req.op = "list_products"
    /\ db
    /\ ~req.faults.scan
    /\ req.faults.op[1]
    /\ "Skeleton Spawner" \notin Titles(product)
    /\ ~req.readFail
    /\ resp.status = 200

----------------------------------------------------------------------------
(* Order properties *)

\* the exact order value in thousandths, line by line
LineSum(items) ==
    LET RECURSIVE upTo(_)
        upTo(k) == IF k = 0 THEN 0
                   ELSE upTo(k - 1) + items[k].price * items[k].quantity
    IN  upTo(Len(items))

\* c cents is v thousandths rounded to 2 decimals (a half-cent either way)
IsRounded2(c, v) == (10 * c - v <= 5) /\ (v - 10 * c <= 5)

\* C1: an accepted POST /orders persists an order with the submitted lines
\* whose total_amount is the sum of price * quantity over its lines rounded
\* to 2 decimals, whatever price the store holds for the product; this
\* holds of every persisted order
C1_TotalFromSubmittedLines ==
    /\ \A o \in order : IsRounded2(o["total_amount"], LineSum(o["items"]))
    /\ (req.op = "create_order" /\ resp.status = 200) =>
          \E o \in order :
             /\ Str(o["_id"]) = resp.body.order_id
             /\ o["items"] = req.payload.items
             /\ o["status"] = "pending"
             /\ IsRounded2(o["total_amount"], LineSum(req.payload.items))

C1_Witness ==
    /\ req.op = "create_order"
    /\ resp.status = 200
    /\ \E d \in product : d["title"] = "Elytra" /\ d["price"] = PRICE_ELYTRA
    /\ \E o \in order :
          /\ Str(o["_id"]) = resp.body.order_id
          /\ Len(o["items"]) = 2
          /\ o["items"][1].name = "Elytra"
          /\ o["items"][1].price = PRICE_SPAWNER_UNIT
          /\ o["items"][1].quantity = 1
          /\ LineSum(o["items"]) = 75
          /\ o["total_amount"] = 8

\* C2: a schema-valid POST /orders with an empty items list is answered 400
\* and leaves the order collection as it was; every stored order has at
\* least one line
C2_EmptyOrderRejected ==
    /\ [](\A o \in order : Len(o["items"]) >= 1)
    /\ [][ ( /\ req'.op = "create_order"
             /\ ValidOrderRequest(req'.payload)
             /\ req'.payload.items = <<>> )
           => (resp'.status = 400 /\ order' = order /\ nextId' = nextId)
       ]_vars

C2_Witness ==
    /\ req.op = "create_order"
    /\ ValidOrderRequest(req.payload)
    /\ req.payload.items = <<>>
    /\ resp.status = 400
    /\ order # {}

----------------------------------------------------------------------------
(* Feedback properties *)

\* the stored feedback an item of the response stands for
Origin(it) == {f \in feedback : Str(f["_id"]) = it["id"]}

\* what a served listing must look like for threshold m and page size n
ServedFor(items, m, n) ==
    LET matches == {f \in feedback : f["rating"] >= m} IN
    /\ \A k \in 1..Len(items) :
          /\ items[k]["rating"] >= m
          /\ \E f \in Origin(items[k]) :
                /\ f["rating"] = items[k]["rating"]
                /\ f["created_at"] = items[k]["created_at"]
    /\ \A j, k \in 1..Len(items) :
          /\ (j < k) => items[j]["created_at"] >= items[k]["created_at"]
          /\ (j # k) => items[j]["id"] # items[k]["id"]
    /\ Len(items) <= n
    /\ Len(items) = Min(n, Cardinality(matches))
    /\ \A f \in matches :
          (\A k \in 1..Len(items) : items[k]["id"] # Str(f["_id"]))
          => \A k \in 1..Len(items) :
                items[k]["created_at"] >= f["created_at"]

\* C7: for in-range min_rating and limit, a served GET /feedbacks returns
\* only feedback rated >= min_rating, newest first, at most limit entries,
\* and when more match, no entry left out is newer than one returned
C7_FilteredNewestFirstLimited ==
    ( /\ req.op = "list_feedbacks"
      /\ req.min_rating # <<>>
      /\ req.limit # <<>>
      /\ resp.status = 200
      /\ db )
    => ServedFor(resp.items, req.min_rating[1], req.limit[1])

C7_Witness ==
    /\ req.op = "list_feedbacks"
    /\ req.min_rating = <<5>>
    /\ req.limit = <<1>>
    /\ resp.status = 200
    /\ Len(resp.items) = 1
    /\ Cardinality({f \in feedback : f["rating"] = 5}) = 2
    /\ \E f \in feedback : f["rating"] < 5
    /\ \E f \in feedback :
          f["rating"] = 5 /\ f["created_at"] < resp.items[1]["created_at"]

Clamp(lo, hi, v) == IF v < lo THEN lo ELSE IF v > hi THEN hi ELSE v

\* C8 as stated: whatever min_rating and limit are given, the request is
\* served with each moved to the nearest bound of its range (defaults 4
\* and 100 when omitted) whenever the store can be read
C8_Clamped ==
    (req.op = "list_feedbacks" /\ db /\ ~req.readFail) =>
        /\ resp.status = 200
        /\ ServedFor(resp.items,
                     Clamp(1, 5, Param(req.min_rating, 4)),
                     Clamp(1, 500, Param(req.limit, 100)))

\* C8 amended: a GET /feedbacks whose min_rating lies outside [1,5] or whose
\* limit lies outside [1,500] is rejected (422) and nothing is listed;
\* omitted parameters default to min_rating=4 and limit=100
C8_RejectedOrDefaulted ==
    (req.op = "list_feedbacks") =>
        /\ ( \/ (req.min_rating # <<>> /\
                    (req.min_rating[1] < 1 \/ req.min_rating[1] > 5))
             \/ (req.limit # <<>> /\
                    (req.limit[1] < 1 \/ req.limit[1] > 500)) )
           => (resp.status = 422 /\ "items" \notin DOMAIN resp)
        /\ (db /\ resp.status = 200) =>
              ServedFor(resp.items,
                        IF req.min_rating = <<>> THEN 4 ELSE req.min_rating[1],
                        IF req.limit = <<>> THEN 100 ELSE req.limit[1])

C8_Witness ==
    /\ req.op = "list_feedbacks"
    /\ req.min_rating = <<6>>
    /\ req.limit = <<>>
    /\ resp.status = 422
    /\ feedback # {}

----------------------------------------------------------------------------
(* Diagnostics properties *)

\* C9: GET /test always answers 200 and leaves every collection as it was;
\* without a store handle the database field reports that the store is not
\* initialized and nothing is connected or listed; with a handle at most 10
\* collection names are returned, the first ones the store reports
C9_TestAlwaysAnswers ==
    /\ []( (req.op = "test_database") =>
             /\ resp.status = 200
             /\ ~db => /\ resp.body.database[1] = "Available but not initialized"
                       /\ resp.body.connection_status = "Not Connected"
                       /\ resp.body.collections = <<>>
             /\ db => /\ Len(resp.body.collections) <= 10
                      /\ ~req.listFail =>
                            /\ Len(resp.body.collections) = Min(10, env.ncoll)
                            /\ \A k \in 1..Len(resp.body.collections) :
                                  resp.body.collections[k] = k
                      /\ req.listFail => resp.body.collections = <<>> )
    /\ [][ (req'.op = "test_database") =>
              UNCHANGED <<db, product, order, feedback, nextId>> ]_vars

C9_Witness ==
    /\ req.op = "test_database"
    /\ db
    /\ env.ncoll > 10
    /\ ~req.listFail
    /\ Len(resp.body.collections) = 10
    /\ product # {}

----------------------------------------------------------------------------
(* Concurrency properties *)

\* C10: with GET /products requests interleaving, starting from a store
\* without duplicate titles, no two product documents ever share a title
C10_TitlesStayUnique == NoDuplicateTitles

====
